---- MODULE Spec2Model ----
(***************************************************************************)
(* A model of the capability-composition engine of make-with               *)
(* (src/src/index.ts): the state binder makeWith, its construction cache,  *)
(* the layered builder makeLayered and the composition protocol of         *)
(* compose.  JavaScript objects live in heaps (sequences indexed by object *)
(* identity); closures are records that hold what the closure captures;    *)
(* a call is evaluated by the recursive operator Call, which threads the   *)
(* heaps and a log of every invocation of a caller-supplied function.      *)
(***************************************************************************)
EXTENDS Integers, Sequences, FiniteSets, TLC

\* ------------------------------------------------------------------------
\* Bounds of the model
\* ------------------------------------------------------------------------
MaxStates == 3   \* State objects on the heap
MaxApis   == 6   \* capability objects on the heap
MaxAccs   == 3   \* accumulators (closures returned by createNextLayer)
MaxChain  == 2   \* method calls in one chained expression
MaxLayers == 2   \* calls of the accumulators of one makeLayered call with a function
MaxComposed == 2 \* calls of makeWithCompose
MaxMade   == 1   \* tables made by make from lists of functions

\* ------------------------------------------------------------------------
\* JavaScript values
\* ------------------------------------------------------------------------
Num(n)      == [t |-> "num", n |-> n]
Undef       == [t |-> "undef"]
Null        == [t |-> "null"]
Junk        == [t |-> "junk"]        \* NaN, or the string a number + object yields
StateRef(i) == [t |-> "state", id |-> i]
ApiRef(i)   == [t |-> "api", id |-> i]
FnVal(c)    == [t |-> "fn", c |-> c]
TableRef(i) == [t |-> "table", id |-> i]
\* a function value with its name property ("" for an anonymous function)
NamedFn(name, c) == [t |-> "fn", c |-> c, name |-> name]
\* an array of values
ListVal(items) == [t |-> "list", items |-> items]
\* a thrown error: the context of the outermost LayeredError ("" when the
\* error is not a LayeredError), the root cause and the number of wrappers
Err(ctx, root, depth) == [t |-> "err", ctx |-> ctx, root |-> root, depth |-> depth]

IsErr(v)    == v.t = "err"
IsObject(v) == v.t \in {"state", "api"}     \* typeof v === 'object' && v !== null

Names == {"increment", "add", "get", "tap", "double"}

\* closures
NoOp == [f |-> "none"]
\* a function written by the caller: its body and the table literal it is in
User(body, tid) == [f |-> "user", body |-> body, tid |-> tid]
\* a function made by a layer function: it captures currentApi, the argument
\* the layer function was called with
Closure(body, tid, cap) == [f |-> "closure", body |-> body, tid |-> tid, cap |-> cap]
\* finalApi[key] of makeWith: captures fn, subject, isChainable, functionsMap
Bound(fn, subject, chain, tid, key) ==
  [f |-> "bound", fn |-> fn, subject |-> subject, chain |-> chain, tid |-> tid, key |-> key]
\* nextLayer[key] of a composable layer when a previous method exists
WrapPrev(fn, cur, prev, key) ==
  [f |-> "wrapPrev", fn |-> fn, cur |-> cur, prev |-> prev, key |-> key]
\* smartPreviousMethod: captures previousMethod and currentInstance
SmartPrev(prev, cur, key) == [f |-> "smartPrev", prev |-> prev, cur |-> cur, key |-> key]
\* nextLayer[key] of a composable layer when there is no previous method
WrapNoPrev(fn, cur, key) == [f |-> "wrapNoPrev", fn |-> fn, cur |-> cur, key |-> key]
\* noPreviousMethod
NoPrev(key) == [f |-> "noPrev", key |-> key]
\* composedMethods[key] of makeWithCompose for a name defined before:
\* (s, ...args) => method(s, ...args, existingMethod)
ComposedPair(method, existing) == [f |-> "composedPair", fn |-> method, prev |-> existing]

\* an element of the array _with returns: captures fn, subject and index
Partial(fn, subject, index) ==
  [f |-> "partial", fn |-> fn, subject |-> subject, index |-> index]

\* a property value of a table that is not a function, such as 42
NotFn == [f |-> "value"]

\* new LayeredError(`[${context}] ${message}`, { cause })
createError(ctx, cause) == Err(ctx, cause.root, cause.depth + 1)
\* an error that is not caused by another one
Raise(ctx, root) == Err(ctx, root, 0)

Arg(args, i) == IF i <= Len(args) THEN args[i] ELSE Undef

\* the heaps and the call log, threaded through every evaluation
Machine(st, ap, tb, ca, va, lg) ==
  [states |-> st, apis |-> ap, tables |-> tb, cache |-> ca, validated |-> va, log |-> lg]
Ret(v, m) == [r |-> v, m |-> m]

\* ------------------------------------------------------------------------
\* What the functions written by the caller compute
\* ------------------------------------------------------------------------
\* s.count: only a State has the field
CountIn(v, sts) == IF v.t = "state" THEN sts[v.id].count ELSE Undef
CountOf(v, m) == CountIn(v, m.states)
\* a + b of JavaScript on the values of the model
Plus(a, b) == IF a.t = "num" /\ b.t = "num" THEN Num(a.n + b.n) ELSE Junk
\* the object literal { count: c }: a new State object
NewState(c, m) ==
  Ret(StateRef(Len(m.states) + 1), [m EXCEPT !.states = Append(@, [count |-> c])])

\* ------------------------------------------------------------------------
\* makeWith (provideTo): the state binder and its construction cache
\* ------------------------------------------------------------------------
\* Object.keys(functionsMap): the names the table defines
MethodNames(tid, m) == {k \in Names : m.tables[tid].fns[k] # NoOp}

\* the loop of validateMethods: typeof value === 'function' for every entry
AllFunctions(tid, m) == \A k \in Names : m.tables[tid].fns[k] # NotFn
\* validateMethods(methods, context) returns without a throw: the table is in
\* VALIDATION_CACHE, or every value of it is a function
validateMethods(tid, m) == tid \in m.validated \/ AllFunctions(tid, m)
\* VALIDATION_CACHE.add(methods), the last statement of validateMethods
Validated(tid, m) == [m EXCEPT !.validated = @ \cup {tid}]

\* (mutant) an entry re-binds when its own function is an updater
BuildApi_BySignature(subject, tid, m) ==
  [ops |-> [k \in Names |->
              IF k \in MethodNames(tid, m)
              THEN Bound(m.tables[tid].fns[k], subject,
                         m.tables[tid].fns[k].body \in {"inc", "add"}, tid, k)
              ELSE NoOp],
   internal |-> subject]
\* the factory of makeWith: finalApi, with INTERNAL_STATE set to the subject
BuildApi(subject, tid, m) ==
  [ops |-> [k \in Names |->
              IF k \in MethodNames(tid, m)
              THEN Bound(m.tables[tid].fns[k], subject, m.tables[tid].chainable, tid, k)
              ELSE NoOp],
   internal |-> subject]

\* (mutant) the cache is looked up by the value of the subject
CacheHits_ByValue(subject, tid, m) ==
  {e \in m.cache : /\ e.tid = tid /\ e.subj.t = subject.t
                    /\ IF subject.t = "state"
                       THEN m.states[e.subj.id] = m.states[subject.id]
                       ELSE e.subj = subject}
\* API_CACHE.get(subject)?.get(functionsMap)
CacheHits(subject, tid, m) == {e \in m.cache : e.subj = subject /\ e.tid = tid}

\* (mutant) the factory leaves out the values that are no functions and
\* returns what it has built
factory_Partial(subject, tid, m) ==
  LET id == Len(m.apis) + 1
      api == BuildApi(subject, tid, m)
  IN Ret(ApiRef(id),
         [m EXCEPT !.apis = Append(@, [api EXCEPT !.ops = [k \in Names |->
                                 IF m.tables[tid].fns[k] = NotFn THEN NoOp ELSE @[k]]])])
\* the factory makeWith hands to getCachedApi: validateMethods, then finalApi;
\* the catch wraps the TypeError of validateMethods
factory(subject, tid, m) ==
  IF ~validateMethods(tid, m)
  THEN Ret(createError("makeWith", Raise("", "TypeError")), m)
  ELSE LET id == Len(m.apis) + 1
       IN Ret(ApiRef(id),
              [Validated(tid, m) EXCEPT !.apis = Append(@, BuildApi(subject, tid, m))])

\* (mutant) the construction cache is kept in a field of the subject
getCachedApi_OnSubject(subject, tid, m) ==
  IF CacheHits(subject, tid, m) # {}
  THEN Ret(ApiRef((CHOOSE e \in CacheHits(subject, tid, m) : TRUE).api), m)
  ELSE LET newApi == factory(subject, tid, m)
       IN IF IsErr(newApi.r) THEN newApi
          ELSE Ret(newApi.r,
                   [newApi.m EXCEPT
                      !.cache = @ \cup {[subj |-> subject, tid |-> tid, api |-> newApi.r.id]},
                      !.states = IF subject.t = "state"
                                 THEN [@ EXCEPT ![subject.id] = [count |-> Junk]]
                                 ELSE @])
\* getCachedApi(subject, functionsMap, factory): an error of the factory
\* leaves the function before subjectCache.set
getCachedApi(subject, tid, m) ==
  IF CacheHits(subject, tid, m) # {}
  THEN Ret(ApiRef((CHOOSE e \in CacheHits(subject, tid, m) : TRUE).api), m)
  ELSE LET newApi == factory(subject, tid, m)
       IN IF IsErr(newApi.r) THEN newApi
          ELSE Ret(newApi.r,
                   [newApi.m EXCEPT
                      !.cache = @ \cup {[subj |-> subject, tid |-> tid, api |-> newApi.r.id]}])

\* (mutant) the subject is handed to the cache without a check
makeWith_Unchecked(subject, tid, m) == getCachedApi(subject, tid, m)
\* makeWith(subject)(functionsMap)
makeWith(subject, tid, m) ==
  IF subject.t \in {"undef", "null"} THEN Ret(Raise("makeWith", "NullSubject"), m)
  ELSE IF ~IsObject(subject) THEN Ret(Raise("makeWith", "SubjectNotObject"), m)
  ELSE getCachedApi(subject, tid, m)

\* ------------------------------------------------------------------------
\* Calling a closure
\* ------------------------------------------------------------------------
\* (mutant) the bound entry passes the caller's arguments before the subject
BoundArgs_SubjectLast(subject, args) == args \o <<subject>>
\* fn(subject, ...args) in a bound entry of makeWith
BoundArgs(subject, args) == <<subject>> \o args
\* fn(currentInstance, ...args, smartPreviousMethod) in a composed entry
ComposedArgs(cur, args, cont) == <<ApiRef(cur)>> \o args \o <<FnVal(cont)>>
\* previousMethod(currentInstance, ...methodArgs) in smartPreviousMethod
PreviousArgs(cur, methodArgs) == <<ApiRef(cur)>> \o methodArgs
\* (mutant) smartPreviousMethod returns every result as it is
SmartResult_Verbatim(result, m) == result
\* what smartPreviousMethod returns for the result of previousMethod: the
\* INTERNAL_STATE of a result that owns one, any other result as it is
SmartResult(result, m) ==
  IF result.t = "api" THEN m.apis[result.id].internal ELSE result
\* (mutant) the chainable entry binds the table to the state it was called on
RebindSubject_Stale(subject, newSubject) == subject
\* the subject a chainable entry binds the table to after the call
RebindSubject(subject, newSubject) == newSubject

RECURSIVE Call(_, _, _)
RECURSIVE UserBody(_, _, _)

\* v(...args) for a value v
CallValue(v, args, m) ==
  IF v.t = "fn" THEN Call(v.c, args, m) ELSE Ret(Raise("", "TypeError"), m)
\* v.name(...args) for a value v
CallMethod(v, name, args, m) ==
  IF v.t = "api" /\ m.apis[v.id].ops[name] # NoOp
  THEN Call(m.apis[v.id].ops[name], args, m)
  ELSE Ret(Raise("", "TypeError"), m)

\* the functions the caller puts in tables
UserBody(body, args, m) ==
  CASE body = "inc"      -> NewState(Plus(CountOf(Arg(args, 1), m), Num(1)), m)
    [] body = "add"      -> NewState(Plus(CountOf(Arg(args, 1), m), Arg(args, 2)), m)
    [] body = "get"      -> Ret(CountOf(Arg(args, 1), m), m)
    [] body = "self"     -> Ret(Arg(args, 1), m)
    [] body = "echo"     -> Ret(Arg(args, 2), m)
    [] body = "void"     -> Ret(Undef, m)
    [] body = "double"   ->
         LET g == CallMethod(Arg(args, 1), "get", <<>>, m)
         IN IF IsErr(g.r) THEN g ELSE CallMethod(Arg(args, 1), "add", <<g.r>>, g.m)
    [] body = "null"     -> Ret(Null, m)
    [] body = "throw"    -> Ret(Raise("", "UserError"), m)
    [] body = "pass0"    -> CallValue(Arg(args, 2), <<Arg(args, 1)>>, m)
    [] body = "pass1"    -> CallValue(Arg(args, 3), <<Arg(args, 1), Arg(args, 2)>>, m)
    [] body = "fwd0"     -> CallValue(Arg(args, 2), <<>>, m)
    [] body = "fwd1"     -> CallValue(Arg(args, 3), <<Arg(args, 2)>>, m)
    [] body = "fwdLast0" -> CallValue(Arg(args, Len(args)), <<>>, m)
    [] body = "fwdLast1" -> CallValue(Arg(args, Len(args)), <<Arg(args, Len(args) - 1)>>, m)

\* (mutant) the chainable entry binds whatever fn returned
ChainResult_Unchecked(c, newSubject, m) ==
  getCachedApi(RebindSubject(c.subject, newSubject), c.tid, m)
\* a chainable entry of makeWith after fn returned newSubject
ChainResult(c, newSubject, m) ==
  IF newSubject.t = "undef" THEN Ret(Raise("makeWith", "ChainableUndefined"), m)
  ELSE IF ~IsObject(newSubject) THEN Ret(Raise("makeWith", "ChainableNotObject"), m)
  ELSE makeWith(RebindSubject(c.subject, newSubject), c.tid, m)

\* (mutant) the catch block throws the error it caught
Caught_Rethrow(ctx, res) == res
\* try { ... } catch (error) { throw createError(ctx, ..., error) }
Caught(ctx, res) == IF IsErr(res.r) THEN Ret(createError(ctx, res.r), res.m) ELSE res

Call(c, args, m) ==
  CASE c.f = "user" ->
         UserBody(c.body, args,
                  [m EXCEPT !.log = Append(@, [body |-> c.body, tid |-> c.tid, args |-> args])])
    [] c.f = "closure" ->
         \* () => 2 * cap.count
         Ret(Plus(CountOf(c.cap, m), CountOf(c.cap, m)),
             [m EXCEPT !.log = Append(@, [body |-> c.body, tid |-> c.tid, args |-> args])])
    [] c.f = "bound" ->
         LET r == Call(c.fn, BoundArgs(c.subject, args), m)
         IN IF c.chain
            THEN Caught("makeWith", IF IsErr(r.r) THEN r ELSE ChainResult(c, r.r, r.m))
            ELSE Caught("makeWith", r)
    [] c.f = "wrapPrev" ->
         Caught("compose",
                Call(c.fn, ComposedArgs(c.cur, args, SmartPrev(c.prev, c.cur, c.key)), m))
    [] c.f = "smartPrev" ->
         LET r == Call(c.prev, PreviousArgs(c.cur, args), m)
         IN IF IsErr(r.r) THEN r ELSE Ret(SmartResult(r.r, r.m), r.m)
    [] c.f = "wrapNoPrev" ->
         Caught("compose", Call(c.fn, ComposedArgs(c.cur, args, NoPrev(c.key)), m))
    [] c.f = "noPrev" -> Ret(Raise("compose", "NoPrevious"), m)
    [] c.f = "composedPair" -> Call(c.fn, Append(args, FnVal(c.prev)), m)
    [] c.f = "partial" -> Caught("_with", Call(c.fn, <<c.subject>> \o args, m))
    [] c.f = "value" -> Ret(Raise("", "TypeError"), m)

\* ------------------------------------------------------------------------
\* The tables the caller supplies
\* ------------------------------------------------------------------------
Table(fns, chainable, composable) ==
  [fns |-> [k \in Names |-> IF k \in DOMAIN fns THEN fns[k] ELSE NoOp],
   chainable |-> chainable, composable |-> composable]

\* (mutant) rebind flips the tag of the table
rebind_Toggle(table) == [table EXCEPT !.chainable = ~@]
\* rebind(obj), alias makeChainable: the table, tagged IS_CHAINABLE
rebind(table) == [table EXCEPT !.chainable = TRUE]
\* compose(methods): the table, tagged IS_COMPOSABLE
compose(table) == [table EXCEPT !.composable = TRUE]
\* { ...table, ...fns }: every own enumerable property of table is copied,
\* the symbol-keyed tags included, then the properties of fns
Spread(table, fns) ==
  [fns |-> [k \in Names |-> IF k \in DOMAIN fns THEN fns[k] ELSE table.fns[k]],
   chainable |-> table.chainable, composable |-> table.composable]

TMut     == 1   \* makeChainable({ increment, add })
TRead    == 2   \* { get: s => s.count }
TLayer   == 3   \* { get: (self, a) => a, tap: self => self }
TComp    == 4   \* compose({ get, add, tap }), each calling its trailing argument
TCompDoc == 5   \* compose({ get: (s, prev) => prev(), add: (s, a, prev) => prev(a) })
TSpread  == 6   \* { ...makeChainable({ increment, add }), get: s => s.count }
TBad     == 7   \* makeChainable({ increment: s => {}, add: (s, a) => a, tap: s => null })
TDouble  == 8   \* { double: self => self.add(self.get()) }
TFresh   == 9   \* { increment: s => ({ count: s.count + 1 }), tap: s => s }, untagged
TThrow   == 10  \* { get: s => { throw new Error(...) }, add: (s, a) => ({ count: s.count + a }) }
TPipe    == 11  \* { increment: (s, prev) => prev(s), add: (s, a, prev) => prev(s, a) }
TInvalid == 12  \* { get: s => s.count, double: 42 }

Catalogue ==
  << Table([increment |-> User("inc", TMut), add |-> User("add", TMut)], TRUE, FALSE),
     Table([get |-> User("get", TRead)], FALSE, FALSE),
     Table([get |-> User("echo", TLayer), tap |-> User("self", TLayer)], FALSE, FALSE),
     Table([get |-> User("fwdLast0", TComp), add |-> User("fwdLast1", TComp),
            tap |-> User("fwdLast0", TComp)], FALSE, TRUE),
     Table([get |-> User("fwd0", TCompDoc), add |-> User("fwd1", TCompDoc)], FALSE, TRUE),
     Spread(rebind(Table([increment |-> User("inc", TSpread),
                          add |-> User("add", TSpread)], FALSE, FALSE)),
            [get |-> User("get", TSpread)]),
     rebind(Table([increment |-> User("void", TBad), add |-> User("echo", TBad),
                   tap |-> User("null", TBad)], FALSE, FALSE)),
     Table([double |-> User("double", TDouble)], FALSE, FALSE),
     Table([increment |-> User("inc", TFresh), tap |-> User("self", TFresh)], FALSE, FALSE),
     Table([get |-> User("throw", TThrow), add |-> User("add", TThrow)], FALSE, FALSE),
     Table([increment |-> User("pass0", TPipe), add |-> User("pass1", TPipe)], FALSE, FALSE),
     Table([get |-> User("get", TInvalid), double |-> NotFn], FALSE, FALSE) >>

BaseTables == {TMut, TRead}
\* the State objects the caller owns: the initial value { count: 0 }
InitialStates == {1}
ArgLists    == {<<>>} \cup {<<Num(2)>>}

\* ------------------------------------------------------------------------
\* The state: the heaps, the accumulators and the outcome of the last call
\* ------------------------------------------------------------------------
\* states, apis, tables: the objects, by identity; cache: API_CACHE;
\* validated: VALIDATION_CACHE, the tables validateMethods has accepted;
\* accs: the accumulators, each closed over currentInstance (cur) and the
\* layerCount of its makeLayered call (builder); path is history: the tables
\* accepted on the way to the accumulator, the base table first;
\* tasks: the callers of getCachedApi, each with the statement it is at and
\* the locals of its call
VARIABLES states, apis, tables, cache, validated, accs, layerCount, last, tasks
vars == <<states, apis, tables, cache, validated, accs, layerCount, last, tasks>>

\* the last call of the caller: what was called (op), on which object (a),
\* the table passed (tid) or the chain of method calls made (calls), the
\* value returned or the error thrown, and every invocation of a
\* caller-supplied function the call caused
Outcome(op, a, tid, calls, r, log) ==
  [op |-> op, a |-> a, tid |-> tid, calls |-> calls, r |-> r, log |-> log]
AccRef(i) == [t |-> "acc", id |-> i]

\* the logical threads that call makeWith
TaskIds == {1, 2}
\* a caller outside getCachedApi; cachedApi is what its last call returned
\* (0: undefined)
Idle == [pc |-> "idle", subject |-> Undef, tid |-> 0, newApi |-> 0, cachedApi |-> 0]

Init ==
  /\ states = << [count |-> Num(0)] >>
  /\ apis = << >>
  /\ tables = Catalogue
  /\ cache = {}
  /\ validated = {}
  /\ accs = << >>
  /\ layerCount = << >>
  /\ last = Outcome("init", 0, 0, << >>, Undef, << >>)
  /\ tasks = [t \in TaskIds |-> Idle]

Now == Machine(states, apis, tables, cache, validated, << >>)
InBounds(m) == Len(m.states) <= MaxStates /\ Len(m.apis) <= MaxApis

\* makeWith(states[s])(tables[tid])
Bind(s, tid) ==
  LET r == makeWith(StateRef(s), tid, Now)
  IN /\ InBounds(r.m)
     /\ states' = r.m.states /\ apis' = r.m.apis
     /\ tables' = r.m.tables /\ cache' = r.m.cache /\ validated' = r.m.validated
     /\ last' = Outcome("makeWith", s, tid, << >>, r.r, r.m.log)
     /\ UNCHANGED <<accs, layerCount, tasks>>

\* makeChainable(tables[tid]): make validates the table and returns it, and
\* the table object itself is tagged and returned
Tag(tid) ==
  /\ IF validateMethods(tid, Now)
     THEN /\ tables' = [tables EXCEPT ![tid] = rebind(@)]
          /\ validated' = Validated(tid, Now).validated
          /\ last' = Outcome("rebind", 0, tid, << >>, TableRef(tid), << >>)
     ELSE /\ UNCHANGED <<tables, validated>>
          /\ last' = Outcome("rebind", 0, tid, << >>,
                             createError("rebind", createError("make", Raise("", "TypeError"))),
                             << >>)
  /\ UNCHANGED <<states, apis, cache, accs, layerCount, tasks>>

\* makeLayered(subject)(baseFns) up to baseInstance: the checks of the
\* subject, then makeWith(subject)(baseFns) inside the try, whose errors the
\* catch wraps
makeLayered(subject, tid, m) ==
  IF subject.t \in {"undef", "null"} THEN Ret(Raise("makeLayered", "NullSubject"), m)
  ELSE IF ~IsObject(subject) THEN Ret(Raise("makeLayered", "SubjectNotObject"), m)
  ELSE LET r == makeWith(subject, tid, m)
       IN IF IsErr(r.r) THEN Ret(createError("makeLayered", r.r), r.m) ELSE r

\* makeLayered(states[s])(tables[tid]): createNextLayer(baseInstance)
StartLayered(s, tid) ==
  LET r == makeLayered(StateRef(s), tid, Now)
  IN /\ InBounds(r.m)
     /\ accs = << >>
     /\ states' = r.m.states /\ apis' = r.m.apis
     /\ tables' = r.m.tables /\ cache' = r.m.cache /\ validated' = r.m.validated
     /\ IF IsErr(r.r)
        THEN /\ accs' = accs /\ layerCount' = layerCount
             /\ last' = Outcome("makeLayered", s, tid, << >>, r.r, r.m.log)
        ELSE /\ accs' = Append(accs, [cur |-> r.r.id, builder |-> Len(layerCount) + 1,
                                      path |-> <<tid>>])
             /\ layerCount' = Append(layerCount, 0)
             /\ last' = Outcome("makeLayered", s, tid, << >>, AccRef(Len(accs) + 1), r.m.log)
     /\ UNCHANGED tasks

\* (mutant) the previous method is looked up on the base capability object
ComposedLayer_FromBase(cur, tid, m) ==
  [fns |-> [k \in Names |->
              IF k \notin MethodNames(tid, m) THEN NoOp
              ELSE IF m.apis[1].ops[k] # NoOp
                   THEN WrapPrev(m.tables[tid].fns[k], cur, m.apis[1].ops[k], k)
                   ELSE WrapNoPrev(m.tables[tid].fns[k], cur, k)],
   chainable |-> FALSE, composable |-> FALSE]
\* the table a composable layer is rewritten to: for every name of the layer
\* a wrapper over the method of that name on currentInstance, if there is one
ComposedLayer(cur, tid, m) ==
  [fns |-> [k \in Names |->
              IF k \notin MethodNames(tid, m) THEN NoOp
              ELSE IF m.apis[cur].ops[k] # NoOp
                   THEN WrapPrev(m.tables[tid].fns[k], cur, m.apis[cur].ops[k], k)
                   ELSE WrapNoPrev(m.tables[tid].fns[k], cur, k)],
   chainable |-> FALSE, composable |-> FALSE]

\* (mutant) a composable layer with a name that currentInstance does not
\* have is refused when it is added
BindLayer_Eager(cur, tid, m) ==
  IF m.tables[tid].composable /\ \E k \in MethodNames(tid, m) : m.apis[cur].ops[k] = NoOp
  THEN Ret(Raise("compose", "NoPrevious"), m)
  ELSE makeWith(ApiRef(cur), tid, m)
\* nextLayer: the layer, validated, bound to currentInstance by provideTo
BindLayer(cur, tid, m) ==
  IF ~validateMethods(tid, m) THEN Ret(Raise("", "TypeError"), m)
  ELSE IF m.tables[tid].composable
  THEN LET m1 == [Validated(tid, m) EXCEPT !.tables = Append(@, ComposedLayer(cur, tid, m))]
       IN makeWith(ApiRef(cur), Len(m1.tables), m1)
  ELSE makeWith(ApiRef(cur), tid, Validated(tid, m))

\* (mutant) the properties of currentInstance win over those of nextLayer
MergeInstance_OldWins(current, next) ==
  [ops |-> [k \in Names |-> IF current.ops[k] # NoOp THEN current.ops[k] ELSE next.ops[k]],
   internal |-> next.internal]
\* Object.assign(Object.create(proto), currentInstance, nextLayer): every own
\* enumerable property is copied, INTERNAL_STATE included, nextLayer last
MergeInstance(current, next) ==
  [ops |-> [k \in Names |-> IF next.ops[k] # NoOp THEN next.ops[k] ELSE current.ops[k]],
   internal |-> next.internal]

\* (mutant) the accumulator called with a layer is itself moved to the merged
\* capability object
AddLayer_InPlace(a, tid) ==
  LET cur == accs[a].cur
      r   == BindLayer(cur, tid, Now)
      newInstance == MergeInstance(r.m.apis[cur], r.m.apis[r.r.id])
  IN /\ Len(accs) < MaxAccs
     /\ Len(r.m.apis) < MaxApis
     /\ states' = r.m.states
     /\ tables' = r.m.tables
     /\ cache' = r.m.cache /\ validated' = r.m.validated
     /\ layerCount' = [layerCount EXCEPT ![accs[a].builder] = @ + 1]
     /\ apis' = Append(r.m.apis, newInstance)
     /\ accs' = Append([accs EXCEPT ![a].cur = Len(r.m.apis) + 1,
                                    ![a].path = Append(@, tid)],
                       [cur |-> Len(r.m.apis) + 1, builder |-> accs[a].builder,
                        path |-> Append(accs[a].path, tid)])
     /\ last' = Outcome("layer", a, tid, << >>, AccRef(Len(accs) + 1), r.m.log)
     /\ UNCHANGED tasks
\* accs[a](tables[tid]): the accumulator called with a layer
AddLayer(a, tid) ==
  LET cur == accs[a].cur
      r   == BindLayer(cur, tid, Now)
      newInstance == MergeInstance(r.m.apis[cur], r.m.apis[r.r.id])
  IN /\ Len(accs) < MaxAccs
     /\ Len(r.m.apis) < MaxApis
     /\ IsErr(r.r) => layerCount[accs[a].builder] < MaxLayers
     /\ states' = r.m.states
     /\ tables' = r.m.tables
     /\ cache' = r.m.cache /\ validated' = r.m.validated
     /\ layerCount' = [layerCount EXCEPT ![accs[a].builder] = @ + 1]
     /\ IF IsErr(r.r)
        THEN /\ apis' = r.m.apis
             /\ accs' = accs
             /\ last' = Outcome("layer", a, tid, << >>, createError("makeLayered", r.r), r.m.log)
        ELSE /\ apis' = Append(r.m.apis, newInstance)
             /\ accs' = Append(accs, [cur |-> Len(r.m.apis) + 1, builder |-> accs[a].builder,
                                      path |-> Append(accs[a].path, tid)])
             /\ last' = Outcome("layer", a, tid, << >>, AccRef(Len(accs) + 1), r.m.log)
     /\ UNCHANGED tasks

\* enhancerFnsOrLayerFn(currentInstance) for the layer function
\* cap => ({ double: () => 2 * cap.count })
LayerFunctionTable(cur, m) ==
  Table([double |-> Closure("twice", Len(m.tables) + 1, ApiRef(cur))], FALSE, FALSE)

\* accs[a](layerFn): the accumulator called with a layer function
AddLayerFn(a) ==
  LET cur == accs[a].cur
      m1  == [Now EXCEPT !.tables = Append(@, LayerFunctionTable(cur, Now))]
      r   == makeWith(ApiRef(cur), Len(m1.tables), m1)
      newInstance == MergeInstance(r.m.apis[cur], r.m.apis[r.r.id])
  IN /\ Len(accs) < MaxAccs
     /\ Len(r.m.apis) < MaxApis
     /\ states' = r.m.states
     /\ tables' = r.m.tables
     /\ cache' = r.m.cache /\ validated' = r.m.validated
     /\ layerCount' = [layerCount EXCEPT ![accs[a].builder] = @ + 1]
     /\ apis' = Append(r.m.apis, newInstance)
     /\ accs' = Append(accs, [cur |-> Len(r.m.apis) + 1, builder |-> accs[a].builder,
                              path |-> Append(accs[a].path, Len(m1.tables))])
     /\ last' = Outcome("layerFn", a, Len(m1.tables), << >>, AccRef(Len(accs) + 1), r.m.log)
     /\ UNCHANGED tasks

\* a function the accumulator is called with: the number of its declared
\* parameters (Function.length), whether its source text contains '...', and
\* what it returns when called
LayerFn(params, dots, returns) == [params |-> params, dots |-> dots, returns |-> returns]
LayerFns == { LayerFn(1, FALSE, "table"),        \* cap => ({ double: () => ... })
              LayerFn(2, FALSE, "table"),        \* (cap, extra) => ({ ... })
              LayerFn(0, FALSE, "table"),        \* () => ({ double: () => ... })
              LayerFn(0, TRUE, "table"),         \* () => ({ ...extra }), (...a) => ({ ... })
              LayerFn(1, FALSE, "undefined"),    \* cap => { }
              LayerFn(1, FALSE, "badTable") }    \* cap => ({ double: 42 })
\* isLayerFunction(value) for a function
isLayerFunction(fn) == fn.params = 1 \/ (fn.params = 0 /\ fn.dots)
\* the object a layer function returns: cap => ({ double: () => 2 * cap.count }),
\* or cap => ({ double: 42 })
LayerFunctionReturn(fn, cur, m) ==
  IF fn.returns = "table" THEN LayerFunctionTable(cur, m)
  ELSE Table([double |-> NotFn], FALSE, FALSE)

\* accs[a](fn) for any function fn
AddLayerFunction(a, fn) ==
  LET cur == accs[a].cur
      m1  == IF isLayerFunction(fn) /\ fn.returns # "undefined"
             THEN [Now EXCEPT !.tables = Append(@, LayerFunctionReturn(fn, cur, Now))]
             ELSE Now
      err == IF ~isLayerFunction(fn) THEN Raise("makeLayered", "LayerArity")
             ELSE IF fn.returns = "undefined" THEN Raise("makeLayered", "LayerReturn")
             ELSE IF ~validateMethods(Len(m1.tables), m1) THEN Raise("", "TypeError")
             ELSE Undef
      r   == makeWith(ApiRef(cur), Len(m1.tables), m1)
      newInstance == MergeInstance(r.m.apis[cur], r.m.apis[r.r.id])
  IN /\ Len(accs) < MaxAccs
     /\ layerCount[accs[a].builder] < MaxLayers
     /\ layerCount' = [layerCount EXCEPT ![accs[a].builder] = @ + 1]
     /\ IF IsErr(err)
        THEN /\ tables' = m1.tables
             /\ last' = Outcome("layerFunction", a, 0, <<fn>>,
                                Caught("makeLayered", Ret(err, m1)).r, << >>)
             /\ UNCHANGED <<states, apis, cache, validated, accs>>
        ELSE /\ Len(r.m.apis) < MaxApis
             /\ states' = r.m.states
             /\ tables' = r.m.tables
             /\ cache' = r.m.cache /\ validated' = r.m.validated
             /\ apis' = Append(r.m.apis, newInstance)
             /\ accs' = Append(accs, [cur |-> Len(r.m.apis) + 1, builder |-> accs[a].builder,
                                      path |-> Append(accs[a].path, Len(m1.tables))])
             /\ last' = Outcome("layerFunction", a, Len(m1.tables), <<fn>>,
                                AccRef(Len(accs) + 1), r.m.log)
     /\ UNCHANGED tasks

\* composedMethods[key] after the loop of makeWithCompose over the method
\* objects tids, in order: the first function of the name as it is, every
\* later one paired with what was there before it
RECURSIVE ComposedMethod(_, _, _)
ComposedMethod(key, tids, m) ==
  IF tids = << >> THEN NoOp
  ELSE LET existingMethod == ComposedMethod(key, SubSeq(tids, 1, Len(tids) - 1), m)
           method == m.tables[tids[Len(tids)]].fns[key]
       IN IF method = NoOp THEN existingMethod
          ELSE IF existingMethod # NoOp THEN ComposedPair(method, existingMethod)
          ELSE method
\* composedMethods: a new object; Object.entries yields no symbol key, so no
\* tag of a method object reaches it
ComposedMethods(tids, m) ==
  [fns |-> [k \in Names |-> ComposedMethod(k, tids, m)],
   chainable |-> FALSE, composable |-> FALSE]
\* makeWithCompose(subject)(...methodObjects)
makeWithCompose(subject, tids, m) ==
  IF subject.t \in {"undef", "null"} THEN Ret(Raise("makeWithCompose", "NullSubject"), m)
  ELSE IF ~IsObject(subject) THEN Ret(Raise("makeWithCompose", "SubjectNotObject"), m)
  ELSE IF tids = << >> THEN Ret(Raise("makeWithCompose", "NoMethodObjects"), m)
  ELSE IF \E j \in DOMAIN tids : ~AllFunctions(tids[j], m)
       THEN Ret(Raise("makeWithCompose", "NotAFunction"), m)
  ELSE LET m1 == [m EXCEPT !.tables = Append(@, ComposedMethods(tids, m))]
       IN makeWith(subject, Len(m1.tables), m1)

\* the lists of method objects makeWithCompose is called with
MethodObjects ==
  {<<TMut>>, <<TRead>>, <<TMut, TPipe>>, <<TMut, TRead, TPipe>>, <<TMut, TPipe, TPipe>>}

\* makeWithCompose(states[s])(...tids)
BindCompose(s, tids) ==
  LET r == makeWithCompose(StateRef(s), tids, Now)
  IN /\ InBounds(r.m)
     /\ Len(tables) < Len(Catalogue) + MaxComposed
     /\ states' = r.m.states /\ apis' = r.m.apis
     /\ tables' = r.m.tables /\ cache' = r.m.cache /\ validated' = r.m.validated
     /\ last' = Outcome("makeWithCompose", s, Len(r.m.tables), tids, r.r, r.m.log)
     /\ UNCHANGED <<accs, layerCount, tasks>>

\* the index of the first argument of make(...fns) that the loop rejects, 0
\* when it rejects none: typeof fn !== "function", an empty or blank name,
\* or a name seen at a lower index
FirstRejected(args) ==
  LET rejected == {i \in DOMAIN args :
                     \/ args[i].t # "fn"
                     \/ args[i].name \in {"", " "}
                     \/ \E j \in 1..(i - 1) : args[j].t = "fn" /\ args[j].name = args[i].name}
  IN IF rejected = {} THEN 0 ELSE CHOOSE i \in rejected : \A j \in rejected : i <= j
\* (mutant) a name seen before is accepted, the later function replacing the
\* earlier one
ListError_Lenient(args) ==
  LET rejected == {i \in DOMAIN args : args[i].t # "fn" \/ args[i].name \in {"", " "}}
  IN IF rejected = {} THEN Undef
     ELSE LET i == CHOOSE i \in rejected : \A j \in rejected : i <= j
          IN IF args[i].t # "fn" THEN Raise("make", "NotAFunction")
             ELSE Raise("make", "AnonymousFunction")
\* the error the loop of make throws for the list args, Undef when it throws
\* none
ListError(args) ==
  LET i == FirstRejected(args)
  IN IF i = 0 THEN Undef
     ELSE IF args[i].t # "fn" THEN Raise("make", "NotAFunction")
     ELSE IF args[i].name \in {"", " "} THEN Raise("make", "AnonymousFunction")
     ELSE Raise("make", "DuplicateName")
\* (mutant) every name is given the first function of the list
ListTable_First(args) ==
  [fns |-> [k \in Names |-> IF \E i \in DOMAIN args : args[i].name = k
                            THEN args[1].c ELSE NoOp],
   chainable |-> FALSE, composable |-> FALSE]
\* functionsMap after the loop of make: functionsMap[fn.name] = fn
ListTable(args) ==
  [fns |-> [k \in Names |-> IF \E i \in DOMAIN args : args[i].name = k
                            THEN args[CHOOSE i \in DOMAIN args : args[i].name = k].c
                            ELSE NoOp],
   chainable |-> FALSE, composable |-> FALSE]
\* make(...fnsOrObj)
make(args, m) ==
  IF args = << >> THEN Ret(Raise("make", "EmptyInput"), m)
  ELSE IF Len(args) = 1 /\ args[1].t = "table"
  THEN IF validateMethods(args[1].id, m) THEN Ret(args[1], Validated(args[1].id, m))
       ELSE Ret(createError("make", Raise("", "TypeError")), m)
  ELSE IF IsErr(ListError(args)) THEN Ret(ListError(args), m)
  ELSE Ret(TableRef(Len(m.tables) + 1), [m EXCEPT !.tables = Append(@, ListTable(args))])

\* the functions and values make is called with: named functions, one of
\* them sharing its name with another, an arrow function, and a number
MakeItems == { NamedFn("get", User("get", 0)), NamedFn("add", User("add", 0)),
               NamedFn("get", User("echo", 0)), NamedFn("", User("get", 0)), Num(2) }
MakeInputs ==
  {<< >>, <<TableRef(TRead)>>, <<TableRef(TInvalid)>>}
    \cup {<<x>> : x \in MakeItems} \cup {<<x, y>> : x \in MakeItems, y \in MakeItems}

\* make(...args)
Make(args) ==
  LET r == make(args, Now)
  IN /\ Len(r.m.tables) <= Len(Catalogue) + MaxMade
     /\ tables' = r.m.tables
     /\ validated' = r.m.validated
     /\ last' = Outcome("make", 0, 0, args, r.r, << >>)
     /\ UNCHANGED <<states, apis, cache, accs, layerCount, tasks>>

\* makeWith(subject)(...args): the inner function has one parameter,
\* functionsMap, so it sees the first argument only
makeWithArgs(subject, args, m) ==
  LET functionsMap == Arg(args, 1)
  IN IF subject.t \in {"undef", "null"} \/ ~IsObject(subject) THEN makeWith(subject, 0, m)
     ELSE IF functionsMap.t # "table"
     THEN Ret(Raise("makeWith", "FunctionsMapNotObject"), m)
     ELSE makeWith(subject, functionsMap.id, m)

\* the named functions makeWith is called with in place of a table
BindItems == {x \in MakeItems : x.t = "fn" /\ x.name # ""}
\* makeWith(states[s])(...args)
BindArgs(s, args) ==
  LET r == makeWithArgs(StateRef(s), args, Now)
  IN /\ InBounds(r.m)
     /\ states' = r.m.states /\ apis' = r.m.apis
     /\ tables' = r.m.tables /\ cache' = r.m.cache /\ validated' = r.m.validated
     /\ last' = Outcome("makeWithArgs", s, 0, args, r.r, r.m.log)
     /\ UNCHANGED <<accs, layerCount, tasks>>

\* makeWith(v)(tables[tid]) for a value v that is no State
BindValue(v, tid) ==
  LET r == makeWith(v, tid, Now)
  IN /\ InBounds(r.m)
     /\ states' = r.m.states /\ apis' = r.m.apis
     /\ tables' = r.m.tables /\ cache' = r.m.cache /\ validated' = r.m.validated
     /\ last' = Outcome("makeWith", 0, tid, <<v>>, r.r, r.m.log)
     /\ UNCHANGED <<accs, layerCount, tasks>>

\* makeLayered(v)(tables[tid]) for a value v that is no State
LayeredValue(v, tid) ==
  LET r == makeLayered(v, tid, Now)
  IN /\ InBounds(r.m)
     /\ Len(accs) < MaxAccs
     /\ states' = r.m.states /\ apis' = r.m.apis
     /\ tables' = r.m.tables /\ cache' = r.m.cache /\ validated' = r.m.validated
     /\ IF IsErr(r.r)
        THEN /\ accs' = accs /\ layerCount' = layerCount
             /\ last' = Outcome("makeLayered", 0, tid, <<v>>, r.r, r.m.log)
        ELSE /\ accs' = Append(accs, [cur |-> r.r.id, builder |-> Len(layerCount) + 1,
                                      path |-> <<tid>>])
             /\ layerCount' = Append(layerCount, 0)
             /\ last' = Outcome("makeLayered", 0, tid, <<v>>, AccRef(Len(accs) + 1), r.m.log)
     /\ UNCHANGED tasks

\* makeWithCompose(v)(tables[tid]) for a value v that is no State
ComposeValue(v, tid) ==
  LET r == makeWithCompose(v, <<tid>>, Now)
  IN /\ InBounds(r.m)
     /\ Len(tables) < Len(Catalogue) + MaxComposed
     /\ states' = r.m.states /\ apis' = r.m.apis
     /\ tables' = r.m.tables /\ cache' = r.m.cache /\ validated' = r.m.validated
     /\ last' = Outcome("makeWithCompose", 0, tid, <<v>>, r.r, r.m.log)
     /\ UNCHANGED <<accs, layerCount, tasks>>

\* (mutant) the array is filled from its end
PartialList_Reversed(subject, fns) ==
  [i \in DOMAIN fns |-> FnVal(Partial(fns[Len(fns) + 1 - i].c, subject, i))]
\* fns.map((fn, index) => (...args) => fn(subject, ...args))
PartialList(subject, fns) ==
  [i \in DOMAIN fns |-> FnVal(Partial(fns[i].c, subject, i))]
\* _with(subject)(...fns), alias provide
provide(subject, fns, m) ==
  IF subject.t \in {"undef", "null"} THEN Ret(Raise("_with", "NullSubject"), m)
  ELSE IF fns = << >> THEN Ret(Raise("_with", "NoFunctions"), m)
  ELSE IF \E i \in DOMAIN fns : fns[i].t # "fn" THEN Ret(Raise("_with", "NotAFunction"), m)
  ELSE Ret(ListVal(PartialList(subject, fns)), m)

\* the index of the first object of merge(...objects) that validateMethods
\* rejects, 0 when it rejects none
FirstInvalid(tids, m) ==
  LET rejected == {j \in DOMAIN tids : ~validateMethods(tids[j], m)}
  IN IF rejected = {} THEN 0 ELSE CHOOSE j \in rejected : \A i \in rejected : j <= i
\* Object.assign({}, ...objects): every own enumerable property of every
\* object, the symbol-keyed tags included, a later object over an earlier one
MergedTable(tids, m) ==
  [fns |-> [k \in Names |->
              IF \E j \in DOMAIN tids : m.tables[tids[j]].fns[k] # NoOp
              THEN m.tables[tids[CHOOSE j \in DOMAIN tids :
                                    /\ m.tables[tids[j]].fns[k] # NoOp
                                    /\ \A i \in DOMAIN tids :
                                         m.tables[tids[i]].fns[k] # NoOp => i <= j]].fns[k]
              ELSE NoOp],
   chainable |-> \E j \in DOMAIN tids : m.tables[tids[j]].chainable,
   composable |-> \E j \in DOMAIN tids : m.tables[tids[j]].composable]
\* merge(...objects): validateMethods on each object in turn, then the copy
merge(tids, m) ==
  LET f == FirstInvalid(tids, m)
      seen == {tids[j] : j \in {i \in DOMAIN tids : f = 0 \/ i < f}}
      m1 == [m EXCEPT !.validated = @ \cup seen]
  IN IF tids = << >> THEN Ret(Raise("merge", "NoObjects"), m)
     ELSE IF f # 0 THEN Ret(createError("merge", Raise("", "TypeError")), m1)
     ELSE Ret(TableRef(Len(m.tables) + 1),
              [m1 EXCEPT !.tables = Append(@, MergedTable(tids, m))])

\* merge(...tids)
Merge(tids) ==
  LET r == merge(tids, Now)
  IN /\ Len(r.m.tables) <= Len(Catalogue) + MaxMade
     /\ tables' = r.m.tables
     /\ validated' = r.m.validated
     /\ last' = Outcome("merge", 0, 0, tids, r.r, << >>)
     /\ UNCHANGED <<states, apis, cache, accs, layerCount, tasks>>

\* tables[tid][key] = v in the code of the caller: a table is a plain object
\* that nothing freezes
Assign(tid, key, v) ==
  /\ tables[tid].fns[key] # v
  /\ tables' = [tables EXCEPT ![tid].fns[key] = v]
  /\ last' = Outcome("assign", 0, tid, <<key>>, Undef, << >>)
  /\ UNCHANGED <<states, apis, cache, validated, accs, layerCount, tasks>>

\* the functions and values _with is called with
ProvideItems == { FnVal(User("get", 0)), FnVal(User("add", 0)), FnVal(User("echo", 0)),
                  FnVal(User("throw", 0)), Num(2) }
ProvideInputs ==
  {<< >>} \cup {<<x>> : x \in ProvideItems}
          \cup {<<x, y>> : x \in ProvideItems, y \in ProvideItems}

\* the subjects _with is called with: _with checks for null and undefined only
ProvideSubjects == {StateRef(s) : s \in InitialStates} \cup {Num(2), Null}

\* _with(v)(...fns): calls holds the subject, then the functions
Provide(v, fns) ==
  LET r == provide(v, fns, Now)
  IN /\ last' = Outcome("_with", 0, 0, <<v>> \o fns, r.r, << >>)
     /\ UNCHANGED <<states, apis, tables, cache, validated, accs, layerCount, tasks>>

\* the caller calls the i-th function of the array _with just returned:
\* calls holds the subject and the i-th function given to _with, then the
\* arguments of this call
CallItem(i, args) ==
  /\ last.op = "_with" /\ last.r.t = "list" /\ i \in DOMAIN last.r.items
  /\ LET r == CallValue(last.r.items[i], args, Now)
     IN /\ InBounds(r.m)
        /\ states' = r.m.states /\ apis' = r.m.apis
        /\ tables' = r.m.tables /\ cache' = r.m.cache /\ validated' = r.m.validated
        /\ last' = Outcome("callItem", i, 0, <<last.calls[1], last.calls[i + 1]>> \o args,
                           r.r, r.m.log)
  /\ UNCHANGED <<accs, layerCount, tasks>>

\* (mutant) a caller may be suspended between any two statements
CanStep_Preemptive(t) == TRUE
\* a synchronous function runs to completion: no other caller is inside
\* getCachedApi while t runs
CanStep(t) == \A u \in TaskIds \ {t} : tasks[u].pc = "idle"

\* task t calls makeWith(states[s])(tables[tid]) and enters getCachedApi
Lookup(t, s, tid) ==
  /\ tasks[t].pc = "idle" /\ CanStep(t)
  /\ tasks' = [tasks EXCEPT ![t] = [pc |-> "get", subject |-> StateRef(s), tid |-> tid,
                                     newApi |-> 0, cachedApi |-> 0]]
  /\ UNCHANGED <<states, apis, tables, cache, validated, accs, layerCount, last>>
\* let cachedApi = subjectCache.get(functionsMap); if (!cachedApi) ...
CacheGet(t) ==
  LET hits == CacheHits(tasks[t].subject, tasks[t].tid, Now)
  IN /\ tasks[t].pc = "get" /\ CanStep(t)
     /\ tasks' = IF hits # {}
                 THEN [tasks EXCEPT ![t].cachedApi = (CHOOSE e \in hits : TRUE).api,
                                    ![t].pc = "return"]
                 ELSE [tasks EXCEPT ![t].pc = "factory"]
     /\ UNCHANGED <<states, apis, tables, cache, validated, accs, layerCount, last>>
\* const newApi = factory()
Factory(t) ==
  LET newApi == factory(tasks[t].subject, tasks[t].tid, Now)
  IN /\ tasks[t].pc = "factory" /\ CanStep(t)
     /\ Len(apis) < MaxApis
     /\ apis' = newApi.m.apis
     /\ validated' = newApi.m.validated
     /\ IF IsErr(newApi.r)
        THEN /\ tasks' = [tasks EXCEPT ![t] = Idle]
             /\ last' = Outcome("getCachedApi", tasks[t].subject.id, tasks[t].tid, << >>,
                                newApi.r, << >>)
        ELSE /\ tasks' = [tasks EXCEPT ![t].newApi = newApi.r.id, ![t].pc = "recheck"]
             /\ last' = last
     /\ UNCHANGED <<states, tables, cache, accs, layerCount>>
\* cachedApi = subjectCache.get(functionsMap) || newApi
Recheck(t) ==
  LET hits == CacheHits(tasks[t].subject, tasks[t].tid, Now)
  IN /\ tasks[t].pc = "recheck" /\ CanStep(t)
     /\ tasks' = IF hits # {}
                 THEN [tasks EXCEPT ![t].cachedApi = (CHOOSE e \in hits : TRUE).api,
                                    ![t].pc = "return"]
                 ELSE [tasks EXCEPT ![t].cachedApi = tasks[t].newApi, ![t].pc = "set"]
     /\ UNCHANGED <<states, apis, tables, cache, validated, accs, layerCount, last>>
\* if (cachedApi === newApi) subjectCache.set(functionsMap, cachedApi):
\* WeakMap.set replaces the value of a key that is present
CacheSet(t) ==
  /\ tasks[t].pc = "set" /\ CanStep(t)
  /\ cache' = {e \in cache : ~(e.subj = tasks[t].subject /\ e.tid = tasks[t].tid)}
                 \cup {[subj |-> tasks[t].subject, tid |-> tasks[t].tid,
                        api |-> tasks[t].cachedApi]}
  /\ tasks' = [tasks EXCEPT ![t].pc = "return"]
  /\ UNCHANGED <<states, apis, tables, validated, accs, layerCount, last>>
\* return cachedApi
Return(t) ==
  /\ tasks[t].pc = "return" /\ CanStep(t)
  /\ tasks' = [tasks EXCEPT ![t].pc = "idle"]
  /\ last' = Outcome("getCachedApi", tasks[t].subject.id, tasks[t].tid, << >>,
                     ApiRef(tasks[t].cachedApi), << >>)
  /\ UNCHANGED <<states, apis, tables, cache, validated, accs, layerCount>>

\* (mutant) the terminal call returns the base capability object
Finish_Base(a) ==
  /\ last' = Outcome("terminal", a, 0, << >>, ApiRef(accs[1].cur), << >>)
  /\ UNCHANGED <<states, apis, tables, cache, validated, accs, layerCount, tasks>>
\* accs[a](): the terminal call
Finish(a) ==
  /\ last' = Outcome("terminal", a, 0, << >>, ApiRef(accs[a].cur), << >>)
  /\ UNCHANGED <<states, apis, tables, cache, validated, accs, layerCount, tasks>>

\* the capability objects makeWith returned for the caller's own states
Roots == {e.api : e \in {x \in cache : x.subj.t = "state" /\ x.subj.id \in InitialStates}}
\* the capability objects the terminal calls return
Finals == {accs[a].cur : a \in DOMAIN accs}

\* v.n1(...a1).n2(...a2)...: a chain of method calls, left to right
RECURSIVE RunChain(_, _, _)
RunChain(v, calls, m) ==
  IF calls = << >> THEN Ret(v, m)
  ELSE LET r == CallMethod(v, Head(calls).name, Head(calls).args, m)
       IN IF IsErr(r.r) THEN r ELSE RunChain(r.r, Tail(calls), r.m)

\* apis[i].n1(...a1).n2(...a2)..., for names that apis[i] has
Invoke(i, calls) ==
  /\ \A k \in DOMAIN calls : apis[i].ops[calls[k].name] # NoOp
  /\ LET r == RunChain(ApiRef(i), calls, Now)
     IN /\ InBounds(r.m)
        /\ states' = r.m.states /\ apis' = r.m.apis
        /\ tables' = r.m.tables /\ cache' = r.m.cache /\ validated' = r.m.validated
        /\ last' = Outcome("invoke", i, 0, calls, r.r, r.m.log)
        /\ UNCHANGED <<accs, layerCount>>
  /\ UNCHANGED tasks

MethodCalls == {[name |-> n, args |-> a] : n \in Names, a \in ArgLists}
\* the chains of 1..k method calls
RECURSIVE Chains(_)
Chains(k) ==
  IF k = 0 THEN {}
  ELSE {<<c>> : c \in MethodCalls}
         \cup {Append(cs, c) : cs \in Chains(k - 1), c \in MethodCalls}

\* the single method calls without arguments
BareCalls == {<<c>> : c \in {x \in MethodCalls : x.args = << >>}}

\* binding and invoking, without layers
Next ==
  \/ \E s \in InitialStates, tid \in BaseTables : Bind(s, tid)
  \/ \E i \in Roots, calls \in Chains(MaxChain) : Invoke(i, calls)
Spec == Init /\ [][Next]_vars

\* plain layers over either base table
NextPlain ==
  \/ \E s \in InitialStates, tid \in BaseTables : StartLayered(s, tid)
  \/ \E a \in DOMAIN accs : AddLayer(a, TLayer)
  \/ \E a \in DOMAIN accs : Finish(a)
  \/ \E i \in Finals, calls \in Chains(1) : Invoke(i, calls)
SpecPlain == Init /\ [][NextPlain]_vars

\* plain and composable layers over either base table
NextMixed ==
  \/ \E s \in InitialStates, tid \in BaseTables : StartLayered(s, tid)
  \/ \E a \in DOMAIN accs, tid \in {TLayer, TComp} : AddLayer(a, tid)
  \/ \E a \in DOMAIN accs : Finish(a)
  \/ \E i \in Finals, calls \in Chains(1) : Invoke(i, calls)
SpecMixed == Init /\ [][NextMixed]_vars

\* composable layers over either base table
NextCompose ==
  \/ \E s \in InitialStates, tid \in BaseTables : StartLayered(s, tid)
  \/ \E a \in DOMAIN accs, tid \in {TComp, TCompDoc} : AddLayer(a, tid)
  \/ \E a \in DOMAIN accs : Finish(a)
  \/ \E i \in Finals, calls \in Chains(1) : Invoke(i, calls)
SpecCompose == Init /\ [][NextCompose]_vars

\* one table of any kind bound to the initial state, and calls of the entries
\* of every capability object there is
NextTables ==
  \/ \E s \in InitialStates, tid \in {TMut, TRead, TLayer, TSpread, TBad} :
        cache = {} /\ Bind(s, tid)
  \/ \E i \in DOMAIN apis, calls \in Chains(1) : Invoke(i, calls)
SpecTables == Init /\ [][NextTables]_vars

\* binding tables to every State there is, tagging a table between binds, and
\* calls of the entries of every capability object
NextCache ==
  \/ \E s \in DOMAIN states : Bind(s, TFresh)
  \/ \E s \in InitialStates : Bind(s, TRead)
  \/ Tag(TFresh)
  \/ \E i \in DOMAIN apis, calls \in BareCalls : Invoke(i, calls)
SpecCache == Init /\ [][NextCache]_vars

\* two callers of makeWith, statement by statement through getCachedApi,
\* and calls of entries between their calls
NextConcurrent ==
  \/ \E t \in TaskIds, s \in InitialStates, tid \in BaseTables : Lookup(t, s, tid)
  \/ \E t \in TaskIds : CacheGet(t)
  \/ \E t \in TaskIds : Factory(t)
  \/ \E t \in TaskIds : Recheck(t)
  \/ \E t \in TaskIds : CacheSet(t)
  \/ \E t \in TaskIds : Return(t)
  \/ \E i \in Roots, calls \in BareCalls :
       (\A u \in TaskIds : tasks[u].pc = "idle") /\ Invoke(i, calls)
SpecConcurrent == Init /\ [][NextConcurrent]_vars

\* make over lists and objects, makeWith over an object and over lists of
\* functions, and calls of the entries
NextNormalize ==
  \/ \E args \in MakeInputs : Make(args)
  \/ \E s \in InitialStates : BindArgs(s, <<TableRef(TRead)>>)
  \/ \E s \in InitialStates, x \in BindItems, y \in BindItems :
       BindArgs(s, <<x>>) \/ BindArgs(s, <<x, y>>)
  \/ \E i \in DOMAIN apis, calls \in BareCalls : Invoke(i, calls)
SpecNormalize == Init /\ [][NextNormalize]_vars

\* makeWithCompose over lists of method objects, and calls of the entries
NextAuto ==
  \/ \E s \in InitialStates, tids \in MethodObjects : BindCompose(s, tids)
  \/ \E i \in DOMAIN apis, calls \in Chains(1) : Invoke(i, calls)
SpecAuto == Init /\ [][NextAuto]_vars

\* failures: subjects that are no objects, a base function that throws under
\* composable layers, and accumulators called with functions of every shape
NextErrors ==
  \/ \E v \in {Undef, Null, Num(2)} : BindValue(v, TRead)
  \/ \E s \in InitialStates : StartLayered(s, TThrow)
  \/ \E a \in DOMAIN accs : AddLayer(a, TComp)
  \/ \E a \in DOMAIN accs, fn \in LayerFns : AddLayerFunction(a, fn)
  \/ \E a \in DOMAIN accs : Finish(a)
  \/ \E i \in Finals, calls \in BareCalls : Invoke(i, calls)
SpecErrors == Init /\ [][NextErrors]_vars

\* subjects of every kind handed to the three binders, with calls on what
\* makeWith returns
NonSubjects == {Undef, Null, Num(2)}
NextSubjects ==
  \/ \E v \in NonSubjects : BindValue(v, TRead)
  \/ \E v \in NonSubjects : LayeredValue(v, TRead)
  \/ \E v \in NonSubjects : ComposeValue(v, TRead)
  \/ \E s \in InitialStates, tid \in BaseTables : Bind(s, tid)
  \/ \E s \in InitialStates : StartLayered(s, TRead)
  \/ \E i \in Roots, calls \in BareCalls : Invoke(i, calls)
SpecSubjects == Init /\ [][NextSubjects]_vars

\* partial application: _with on subjects and lists of every kind, and calls
\* of the functions it returns
NextPartial ==
  \/ \E v \in ProvideSubjects, fns \in ProvideInputs : Provide(v, fns)
  \/ \E i \in 1..2, args \in ArgLists : CallItem(i, args)
SpecPartial == Init /\ [][NextPartial]_vars

\* validation: tables with a value that is no function handed to makeWith,
\* makeLayered, an accumulator and merge, a caller that assigns to a property
\* of a table between calls, and calls of the entries
NextValidate ==
  \/ \E s \in InitialStates, tid \in {TRead, TInvalid} : Bind(s, tid)
  \/ \E s \in InitialStates, tid \in {TRead, TInvalid} : StartLayered(s, tid)
  \/ \E a \in DOMAIN accs, tid \in {TRead, TInvalid} : AddLayer(a, tid)
  \/ \E tids \in {<<TRead>>, <<TRead, TInvalid>>} : Merge(tids)
  \/ Assign(TRead, "double", NotFn)
  \/ \E i \in DOMAIN apis, calls \in BareCalls : Invoke(i, calls)
SpecValidate == Init /\ [][NextValidate]_vars

\* orchestration: a getter layer and a layer that calls other operations
\* through self, over the mutation-tagged base table
NextOrchestrate ==
  \/ \E s \in InitialStates : StartLayered(s, TMut)
  \/ \E a \in DOMAIN accs, tid \in {TRead, TDouble} : AddLayer(a, tid)
  \/ \E a \in DOMAIN accs : Finish(a)
  \/ \E i \in Finals, calls \in Chains(1) : Invoke(i, calls)
SpecOrchestrate == Init /\ [][NextOrchestrate]_vars

\* layer functions and plain layers over either base table
NextReflect ==
  \/ \E s \in InitialStates, tid \in BaseTables : StartLayered(s, tid)
  \/ \E a \in DOMAIN accs : AddLayer(a, TLayer)
  \/ \E a \in DOMAIN accs : AddLayerFn(a)
  \/ \E a \in DOMAIN accs : Finish(a)
  \/ \E i \in Finals, calls \in Chains(1) : Invoke(i, calls)
SpecReflect == Init /\ [][NextReflect]_vars

\* ------------------------------------------------------------------------
\* Properties
\* ------------------------------------------------------------------------
\* the table a capability object of makeWith was bound from
BoundTable(i) == (CHOOSE e \in cache : e.api = i).tid
\* a capability object bound from a mutation-tagged table to a State
IsMutatorApi(i) ==
  /\ \E e \in cache : e.api = i /\ e.subj.t = "state"
  /\ tables[BoundTable(i)].chainable
\* what the operations of TMut make of a count
OpCount(call, c) ==
  IF call.name = "increment" THEN Plus(c, Num(1)) ELSE Plus(c, Arg(call.args, 1))
RECURSIVE FoldCalls(_, _)
FoldCalls(calls, c) ==
  IF calls = << >> THEN c ELSE FoldCalls(Tail(calls), OpCount(Head(calls), c))
AllMutators(calls) == \A k \in DOMAIN calls : calls[k].name \in {"increment", "add"}

\* C1: a chain of k mutator calls on a capability object bound from a
\* mutation-tagged table to a state s0 returns a capability object bound to
\* the state that results from applying the k operations in order to s0, and
\* the capability object the chain started from is still bound to s0.
C1_ChainedMutators ==
  [][ (last'.op = "invoke" /\ last'.a \in DOMAIN apis
        /\ IsMutatorApi(last'.a) /\ AllMutators(last'.calls))
      => /\ last'.r.t = "api"
         /\ CountIn(apis'[last'.r.id].internal, states')
              = FoldCalls(last'.calls, CountIn(apis[last'.a].internal, states))
         /\ apis'[last'.a] = apis[last'.a]
         /\ CountIn(apis'[last'.a].internal, states')
              = CountIn(apis[last'.a].internal, states) ]_vars

\* C1 witness: increment twice from { count: 0 } reads 2, the original reads 0
C1_Witness ==
  /\ last.op = "invoke"
  /\ last.calls = << [name |-> "increment", args |-> << >>],
                     [name |-> "increment", args |-> << >>] >>
  /\ last.r.t = "api"
  /\ CountIn(apis[last.r.id].internal, states) = Num(2)
  /\ CountIn(apis[last.a].internal, states) = Num(0)

\* the operation names of a capability object
NamesOf(api) == {k \in Names : api.ops[k] # NoOp}

\* C2: when an accumulator accepts a non-composable layer, the names of the
\* new capability object are those of the previous one and those of the
\* layer; a name of the layer is the layer's function bound to the previous
\* capability object, every other name is the bound operation it was before;
\* and when a name the layer redefined is called, the only caller-supplied
\* function that runs is the layer's: the definition it replaced does not run.
C2_LayerShadows ==
  [][ /\ (last'.op = "layer" /\ last'.r.t = "acc" /\ ~tables[last'.tid].composable)
         => LET oldId == accs[last'.a].cur
                old == apis[oldId]
                new == apis'[accs'[last'.r.id].cur]
                layer == tables[last'.tid]
            IN /\ NamesOf(new) = NamesOf(old) \cup MethodNames(last'.tid, Now)
               /\ \A k \in MethodNames(last'.tid, Now) :
                     new.ops[k] = Bound(layer.fns[k], ApiRef(oldId), layer.chainable,
                                        last'.tid, k)
               /\ \A k \in Names \ MethodNames(last'.tid, Now) :
                     new.ops[k] = old.ops[k]
      /\ (last'.op = "invoke" /\ last'.calls[1].name = "get"
           /\ apis[last'.a].ops["get"].fn = User("echo", TLayer))
         => /\ Len(last'.log) = 1
            /\ last'.log[1].body = "echo" /\ last'.log[1].tid = TLayer
            /\ last'.log[1].args[1] = apis[last'.a].ops["get"].subject ]_vars

\* C2 witness: a layer that defines get and tap was accepted over an
\* object that had get, and the new get was called
C2_Witness ==
  /\ last.op = "invoke" /\ last.calls[1].name = "get"
  /\ apis[last.a].ops["get"].fn = User("echo", TLayer)
  /\ apis[last.a].ops["get"].subject.t = "api"
  /\ apis[apis[last.a].ops["get"].subject.id].ops["get"] # NoOp
  /\ apis[apis[last.a].ops["get"].subject.id].ops["tap"] = NoOp
  /\ apis[last.a].ops["tap"] # NoOp

\* the bound operation the last call invoked first
TopOp == apis[last.a].ops[last.calls[1].name]
\* the last argument a logged invocation received
LastArg(e) == e.args[Len(e.args)]
\* the arguments the forwarding functions of TComp call their trailing
\* argument with: none (fwdLast0), or the argument before it (fwdLast1)
PassedOn(e) == IF e.body = "fwdLast1" THEN <<e.args[Len(e.args) - 1]>> ELSE << >>
\* the logged invocations of the function fn with first argument subject
RunsOf(fn, subject) ==
  {k \in DOMAIN last.log : /\ last.log[k].body = fn.body /\ last.log[k].tid = fn.tid
                            /\ last.log[k].args[1] = subject}

\* C3: an operation of a layer added after the base table receives the
\* capability object that was current when the layer was added, not a State,
\* as its first argument, and the caller's arguments directly after it,
\* unchanged and in order.
C3_LayerReceivesCurrent ==
  (last.op = "invoke" /\ TopOp.subject.t = "api")
  => LET e == last.log[1]
         a == last.calls[1].args
     IN /\ Len(last.log) >= 1
        /\ e.args[1] = TopOp.subject
        /\ e.args[1].t = "api"
        /\ Len(e.args) >= 1 + Len(a)
        /\ SubSeq(e.args, 2, 1 + Len(a)) = a

\* C4: calling a name that a composable layer defined over an existing name
\* with a1..an calls the layer's function exactly once, with the subject,
\* then a1..an, then the continuation.
C4_ComposedArguments ==
  (last.op = "invoke" /\ TopOp.fn.f = "wrapPrev")
  => /\ Len(last.log) >= 1
     /\ last.log[1].body = TopOp.fn.fn.body
     /\ last.log[1].args
          = <<ApiRef(TopOp.fn.cur)>> \o last.calls[1].args
              \o <<FnVal(SmartPrev(TopOp.fn.prev, TopOp.fn.cur, TopOp.fn.key))>>
     /\ Cardinality(RunsOf(TopOp.fn.fn, ApiRef(TopOp.fn.cur))) = 1

\* C5: a continuation called with b1..bm calls the previously bound operation
\* exactly once, and the function of that operation receives the state it is
\* bound to followed by exactly b1..bm.
C5_ContinuationArguments ==
  last.op = "invoke"
  => \A k \in 1..(Len(last.log) - 1) :
       (/\ last.log[k].body \in {"fwdLast0", "fwdLast1"}
        /\ LastArg(last.log[k]).t = "fn"
        /\ LastArg(last.log[k]).c.f = "smartPrev"
        /\ LastArg(last.log[k]).c.prev.fn.f = "user")
       => LET prev == LastArg(last.log[k]).c.prev
          IN /\ last.log[k + 1].body = prev.fn.body
             /\ last.log[k + 1].args = <<prev.subject>> \o PassedOn(last.log[k])
             /\ Cardinality(RunsOf(prev.fn, prev.subject)) = 1

\* what the reader functions that look at their subject only return for a
\* logged invocation
ReaderResult(e) ==
  CASE e.body = "get"  -> CountIn(e.args[1], states)
    [] e.body = "self" -> e.args[1]
\* the last call invoked a name composed once over an operation of a plain or
\* base table (one whose result depends on its subject only), by a function
\* that returns what its trailing argument returns
ComposedOnce ==
  /\ last.op = "invoke" /\ ~IsErr(last.r)
  /\ TopOp.fn.f = "wrapPrev"
  /\ TopOp.fn.fn.body \in {"fwdLast0", "fwdLast1"}
  /\ TopOp.fn.prev.fn.f = "user"
  /\ TopOp.fn.prev.fn.body \in {"inc", "add", "get", "self"}
  /\ Len(last.log) = 2

C7_ComposedMutatorChains ==
  (/\ last.op = "invoke" /\ last.calls = <<[name |-> "add", args |-> <<Num(2)>>]>>
   /\ TopOp.fn.f = "wrapPrev"
   /\ TopOp.fn.prev.fn = User("add", TMut) /\ TopOp.fn.prev.chain)
  => /\ last.r.t = "api"
     /\ CountIn(apis[last.r.id].internal, states)
          = Plus(CountIn(TopOp.fn.prev.subject, states), Num(2))

\* C8: accepting a composable layer that defines a name the current
\* capability object does not have raises no error; the error for the missing
\* previous operation is raised only by a call that runs the layer's function
\* for that name, which received the throwing continuation.
C8_NoPreviousIsLazy ==
  [][ /\ (last'.op = "layer" /\ tables[last'.tid].composable)
         => /\ last'.r.t = "acc"
            /\ \A k \in MethodNames(last'.tid, Now) \ NamesOf(apis[accs[last'.a].cur]) :
                  apis'[accs'[last'.r.id].cur].ops[k].fn
                    = WrapNoPrev(tables[last'.tid].fns[k], accs[last'.a].cur, k)
      /\ (IsErr(last'.r) /\ last'.r.root = "NoPrevious")
         => /\ last'.op = "invoke"
            /\ \E k \in DOMAIN last'.log :
                  LET e == last'.log[k]
                  IN /\ LastArg(e).t = "fn" /\ LastArg(e).c.f = "noPrev"
                     /\ tables[e.tid].composable ]_vars

\* C8 witness: get was composed over a capability object without get, and
\* calling it raised the error of the missing previous method
C8_Witness ==
  /\ last.op = "invoke" /\ last.calls[1].name = "get"
  /\ TopOp.fn.f = "wrapNoPrev"
  /\ IsErr(last.r) /\ last.r.root = "NoPrevious"

\* C9: the previous operation of a composed name is the one that the
\* capability object current at layering time has under that name, installed
\* by an earlier layer or the base table; a function that calls its
\* continuation runs that definition next, so a call runs the definitions
\* from the last layer back to the original.
C9_PreviousIsPrecedingLayer ==
  last.op = "invoke"
  => \A k \in DOMAIN last.log :
       LET e == last.log[k]
           c == LastArg(e)
       IN (c.t = "fn" /\ c.c.f = "smartPrev")
          => LET prev == c.c.prev
             IN /\ e.args[1] = ApiRef(c.c.cur)
                /\ prev = apis[c.c.cur].ops[c.c.key]
                /\ prev.subject.t = "api" => prev.subject.id < c.c.cur
                /\ e.body \in {"fwdLast0", "fwdLast1"}
                   => /\ k + 1 <= Len(last.log)
                      /\ IF prev.fn.f = "user"
                         THEN /\ last.log[k + 1].body = prev.fn.body
                              /\ last.log[k + 1].tid = prev.fn.tid
                              /\ last.log[k + 1].args[1] = prev.subject
                         ELSE /\ last.log[k + 1].body = prev.fn.fn.body
                              /\ last.log[k + 1].tid = prev.fn.fn.tid
                              /\ last.log[k + 1].args[1] = ApiRef(prev.fn.cur)
                              /\ prev.fn.cur < c.c.cur

\* C9 witness: get composed twice over the get of the base table; a call ran
\* the second layer's function, then the first layer's, then the original
C9_Witness ==
  /\ last.op = "invoke" /\ last.calls[1].name = "get"
  /\ Len(last.log) = 3
  /\ last.log[1].body = "fwdLast0" /\ last.log[1].args[1] = TopOp.subject
  /\ last.log[2].body = "fwdLast0" /\ last.log[2].args[1].t = "api"
  /\ last.log[2].args[1].id < TopOp.subject.id
  /\ last.log[3].body = "get" /\ last.log[3].args[1] = StateRef(1)
  /\ last.r = Num(0)

\* the function of the caller behind a bound operation
DefinedBy(b) == IF b.fn.f = "user" THEN b.fn ELSE b.fn.fn
\* the last table of a path that defines the name n
Definer(path, n) ==
  path[CHOOSE k \in DOMAIN path :
         /\ n \in MethodNames(path[k], Now)
         /\ \A j \in DOMAIN path : j > k => n \notin MethodNames(path[j], Now)]

\* C10: the terminal call returns the accumulator's current capability
\* object and binds nothing; that object has exactly the names of the base
\* table and of the layers accepted on the way to the accumulator, each name
\* defined by the last of them that has it.
C10_TerminalCall ==
  [][ last'.op = "terminal"
      => LET api == apis[accs[last'.a].cur]
             path == accs[last'.a].path
         IN /\ last'.r = ApiRef(accs[last'.a].cur)
            /\ UNCHANGED <<states, apis, tables, cache, accs, layerCount>>
            /\ NamesOf(api) = UNION {MethodNames(path[k], Now) : k \in DOMAIN path}
            /\ \A n \in NamesOf(api) :
                  DefinedBy(api.ops[n]) = tables[Definer(path, n)].fns[n] ]_vars

\* C10 witness: the terminal call of an accumulator that accepted two layers
C10_Witness ==
  /\ last.op = "terminal"
  /\ Len(accs[last.a].path) = 3
  /\ last.r = ApiRef(accs[last.a].cur)

\* C11: a builder that has made its terminal call is Finalized and has no
\* transition out of that state: the step after a terminal call never adds a
\* layer to the same build.
C11_NoLayerAfterTerminal ==
  [][ last.op = "terminal"
      => ~(/\ last'.op = "layer" /\ last'.r.t = "acc"
           /\ accs[last'.a].builder = accs[last.a].builder) ]_vars

\* the names of the tables on a path
PathNames(path) == UNION {MethodNames(path[k], Now) : k \in DOMAIN path}

\* C12: an accumulator called with a layer returns a new accumulator over a
\* new capability object and changes neither an existing accumulator nor an
\* existing capability object; a terminal call on any accumulator returns an
\* object with the names of its own path only, and two accumulators never
\* share a capability object.
C12_AccumulatorsPersist ==
  [][ /\ (last'.op = "layer" /\ last'.r.t = "acc")
         => /\ last'.r.id \notin DOMAIN accs
            /\ accs'[last'.r.id].cur \notin DOMAIN apis
            /\ \A i \in DOMAIN accs : accs'[i] = accs[i]
            /\ \A i \in DOMAIN apis : apis'[i] = apis[i]
      /\ last'.op = "terminal"
         => /\ last'.r = ApiRef(accs[last'.a].cur)
            /\ NamesOf(apis[accs[last'.a].cur]) = PathNames(accs[last'.a].path)
      /\ \A i, j \in DOMAIN accs' : i # j => accs'[i].cur # accs'[j].cur ]_vars

\* C12 witness: two different layers were added to the first accumulator, and
\* its terminal call still returns the base capability object
C12_Witness ==
  /\ last.op = "terminal" /\ last.a = 1
  /\ Len(accs) = 3
  /\ Len(accs[2].path) = 2 /\ Len(accs[3].path) = 2
  /\ accs[2].path # accs[3].path
  /\ NamesOf(apis[last.r.id]) = MethodNames(accs[1].path[1], Now)
  /\ NamesOf(apis[accs[2].cur]) # NamesOf(apis[accs[3].cur])

\* C13: a layer given to an accumulator is added to that accumulator even
\* when the returned value is discarded: after the call, the capability
\* object of the accumulator that was called has the layer's names.
C13_LayerAddedInPlace ==
  [][ (last'.op = "layer" /\ last'.r.t = "acc")
      => MethodNames(last'.tid, Now) \subseteq NamesOf(apis'[accs'[last'.a].cur]) ]_vars

\* C14: on a capability object bound from a table that spreads a
\* makeChainable table of updaters together with a plain reader get, a chain
\* of updater calls followed by get returns the count the updaters produce
\* from the bound state (get alone returns the count of the bound state).
C14_SpreadReaders ==
  (/\ last.op = "invoke" /\ BoundTable(last.a) = TSpread
   /\ last.calls[Len(last.calls)].name = "get"
   /\ AllMutators(SubSeq(last.calls, 1, Len(last.calls) - 1)))
  => last.r = FoldCalls(SubSeq(last.calls, 1, Len(last.calls) - 1),
                        CountIn(apis[last.a].internal, states))

\* what a logged invocation of a function without calls of its own returned
Returned(e) ==
  CASE e.body = "get"  -> CountIn(e.args[1], states)
    [] e.body = "self" -> e.args[1]
    [] e.body = "echo" -> Arg(e.args, 2)
    [] e.body = "void" -> Undef
    [] e.body = "null" -> Null
\* the errors of a chainable entry whose function returned no object
ContractViolations == {"ChainableUndefined", "ChainableNotObject"}

\* C15: every bound entry has the kind of its table: an entry of a
\* mutation-tagged table binds the table to what its function returned (a call
\* returns the capability object of the returned state, or fails because the
\* function returned no object), whatever the function is; an entry of an
\* untagged table binds nothing.
C15_KindByTable ==
  [][ /\ \A i \in DOMAIN apis' : \A k \in NamesOf(apis'[i]) :
           apis'[i].ops[k].chain = tables'[apis'[i].ops[k].tid].chainable
      /\ (last'.op = "invoke" /\ Len(last'.calls) = 1)
         => LET op == apis[last'.a].ops[last'.calls[1].name]
            IN IF tables[op.tid].chainable
               THEN \/ /\ IsErr(last'.r) /\ last'.r.root \in ContractViolations
                       /\ apis' = apis
                    \/ /\ last'.r.t = "api"
                       /\ [subj |-> apis'[last'.r.id].internal, tid |-> op.tid,
                            api |-> last'.r.id] \in cache'
                       /\ apis'[last'.r.id].internal = StateRef(Len(states'))
                       /\ Len(states') = Len(states) + 1
               ELSE apis' = apis /\ cache' = cache /\ last'.r.t # "api" ]_vars

\* C15 witness: get of a mutation-tagged table was called; its function is a
\* reader, and the entry treated the count it returned as a new state
C15_Witness ==
  /\ last.op = "invoke" /\ last.calls = <<[name |-> "get", args |-> << >>]>>
  /\ TopOp.chain /\ TopOp.fn.body = "get"
  /\ Len(last.log) = 1 /\ Returned(last.log[1]) = Num(0)
  /\ IsErr(last.r) /\ last.r.root = "ChainableNotObject"

\* C18: a call of an entry of an untagged table bound to a State calls the
\* table's function exactly once, with that State followed by the caller's
\* arguments, and returns what the function returned.
C18_ReaderCall ==
  [][ (/\ last'.op = "invoke" /\ Len(last'.calls) = 1
       /\ ~apis[last'.a].ops[last'.calls[1].name].chain
       /\ apis[last'.a].internal.t = "state")
      => LET op == apis[last'.a].ops[last'.calls[1].name]
         IN /\ op.subject = apis[last'.a].internal
            /\ last'.log = << [body |-> op.fn.body, tid |-> op.fn.tid,
                                args |-> <<op.subject>> \o last'.calls[1].args] >>
            /\ last'.r = Returned(last'.log[1])
            /\ states' = states ]_vars

\* C18 witness: get(2) on an untagged table bound to the initial state called
\* (self, a) => a with the state and 2, and returned 2
C18_Witness ==
  /\ last.op = "invoke" /\ last.calls = <<[name |-> "get", args |-> <<Num(2)>>]>>
  /\ BoundTable(last.a) = TLayer
  /\ last.log = <<[body |-> "echo", tid |-> TLayer, args |-> <<StateRef(1), Num(2)>>]>>
  /\ last.r = Num(2)

\* C19: binding a mutation-tagged table raises no error, whatever its
\* functions return; a call of an entry whose function returns undefined,
\* null or a value that is no object raises the contract violation, wrapped
\* by makeWith, and binds no capability object; and the contract violation
\* is raised by calls of entries only.
C19_ContractViolation ==
  [][ /\ last'.op = "makeWith" => ~IsErr(last'.r)
      /\ (/\ last'.op = "invoke" /\ Len(last'.calls) = 1
          /\ apis[last'.a].ops[last'.calls[1].name].chain
          /\ Len(last'.log) = 1
          /\ last'.log[1].body \in {"get", "self", "echo", "void", "null"}
          /\ ~IsObject(Returned(last'.log[1])))
         => /\ IsErr(last'.r) /\ last'.r.ctx = "makeWith"
            /\ last'.r.root = IF Returned(last'.log[1]) = Undef
                               THEN "ChainableUndefined" ELSE "ChainableNotObject"
            /\ apis' = apis /\ cache' = cache
      /\ (IsErr(last'.r) /\ last'.r.root \in ContractViolations)
         => last'.op = "invoke" ]_vars

\* C19 witness: the table whose increment returns undefined was bound without
\* error, and a call of increment raised the contract violation
C19_Witness ==
  /\ last.op = "invoke" /\ last.calls[1].name = "increment"
  /\ BoundTable(last.a) = TBad
  /\ last.log = <<[body |-> "void", tid |-> TBad, args |-> <<StateRef(1)>> \o last.calls[1].args]>>
  /\ IsErr(last.r) /\ last.r.root = "ChainableUndefined" /\ last.r.ctx = "makeWith"
  /\ Len(apis) = 1

\* C16: on a capability object layered over a mutation-tagged base table, a
\* call that runs a base mutator, directly or from the operation of a later
\* layer through self, returns a capability object that still has the
\* operations of the later layers and is bound to the new state.
C16_LayersSurviveMutators ==
  (/\ last.op = "invoke" /\ Len(last.calls) = 1 /\ ~IsErr(last.r)
   /\ last.a \in Finals
   /\ TopOp.chain \/ TopOp.fn.body = "double")
  => /\ last.r.t = "api"
     /\ NamesOf(apis[last.a]) \subseteq NamesOf(apis[last.r.id])
     /\ apis[last.r.id].internal.t = "state"

\* the State a capability object was built over
RECURSIVE StateOf(_)
StateOf(v) == IF v.t = "state" THEN v ELSE StateOf(apis[v.id].internal)

\* C17: a layer function is called with the capability object that was
\* current when it was added, and the fields of the bound State can be read
\* through that object: the operation () => 2 * cap.count of the table the
\* layer function returned yields twice the count of the bound State.
C17_ReflectiveLayer ==
  (last.op = "invoke" /\ Len(last.calls) = 1 /\ TopOp.fn.f = "closure")
  => /\ TopOp.fn.cap = TopOp.subject
     /\ TopOp.fn.cap.t = "api"
     /\ last.r = Plus(CountIn(StateOf(TopOp.fn.cap), states),
                      CountIn(StateOf(TopOp.fn.cap), states))

\* C20: no step of the engine writes to a State: binding, layering,
\* composing and calling leave every existing State as it was created, and
\* States are only added.
C20_StatesNeverWritten ==
  [][ /\ Len(states') >= Len(states)
      /\ \A i \in DOMAIN states : states'[i] = states[i] ]_vars

\* C20 witness: on a layered capability object a mutator made a new State,
\* and the State it superseded still has the count it was created with
C20_Witness ==
  /\ last.op = "invoke" /\ last.a \in Finals /\ TopOp.chain
  /\ Len(accs[CHOOSE a \in DOMAIN accs : accs[a].cur = last.a].path) >= 2
  /\ last.r.t = "api"
  /\ apis[last.r.id].internal = StateRef(Len(states)) /\ Len(states) >= 2
  /\ states[1] = [count |-> Num(0)]
  /\ states[Len(states)] # states[1]

\* C21: a successful call of a mutator bound to a State s returns a
\* capability object other than the one called, bound to a State other than s.
C21_MutatorLeavesState ==
  (/\ last.op = "invoke" /\ Len(last.calls) = 1
   /\ TopOp.chain /\ apis[last.a].internal.t = "state" /\ last.r.t = "api")
  => /\ last.r.id # last.a
     /\ apis[last.r.id].internal # apis[last.a].internal

\* C22: a bind returns a capability object equal to the one the factory of
\* makeWith builds for the pair at the time of the bind: the same names, each
\* entry of the kind and with the function the table has then.
C22_CacheTransparent ==
  [][ (last'.op = "makeWith" /\ last'.r.t = "api")
      => apis'[last'.r.id] = BuildApi(StateRef(last'.a), last'.tid, Now) ]_vars

\* C23: the cache holds one capability object for each pair of a State
\* identity and a table identity and loses no entry; a bind of a pair the
\* cache holds builds nothing and returns the object of the pair's entry, a
\* bind of any other pair builds one object and enters it; and the object a
\* bind returns has the State and the table of the bind in every entry.
C23_CacheByIdentity ==
  [][ /\ cache \subseteq cache'
      /\ \A e1, e2 \in cache' :
           (e1.subj = e2.subj /\ e1.tid = e2.tid) => e1.api = e2.api
      /\ last'.op = "makeWith"
         => LET hits == CacheHits(StateRef(last'.a), last'.tid, Now)
                api  == apis'[last'.r.id]
            IN /\ last'.r.t = "api"
               /\ IF hits # {}
                  THEN /\ apis' = apis /\ cache' = cache
                       /\ \A e \in hits : last'.r = ApiRef(e.api)
                  ELSE /\ Len(apis') = Len(apis) + 1
                       /\ last'.r = ApiRef(Len(apis'))
                       /\ cache' = cache \cup {[subj |-> StateRef(last'.a),
                                                tid |-> last'.tid, api |-> Len(apis')]}
               /\ api.internal = StateRef(last'.a)
               /\ \A k \in NamesOf(api) : /\ api.ops[k].subject = StateRef(last'.a)
                                          /\ api.ops[k].tid = last'.tid ]_vars

\* C23 witness: two States with the same count, made by two calls of
\* increment, are bound to the same table by two capability objects, and the
\* last bind returned the object the cache held for its pair
C23_Witness ==
  /\ last.op = "makeWith" /\ last.tid = TFresh /\ last.r.t = "api"
  /\ last.r.id < Len(apis)
  /\ \E s \in DOMAIN states :
       /\ s # last.a /\ states[s] = states[last.a]
       /\ \E e \in cache : /\ e.subj = StateRef(s) /\ e.tid = TFresh
                           /\ e.api # last.r.id

\* C29: tagging a table returns the table it was given, tagged, with the
\* names and functions it had; tagging a tagged table changes no table, so
\* every bind of it builds what it built before.
C29_TagIdempotent ==
  [][ last'.op = "rebind"
      => /\ last'.r = TableRef(last'.tid)
         /\ Len(tables') = Len(tables)
         /\ tables'[last'.tid].chainable
         /\ tables'[last'.tid].fns = tables[last'.tid].fns
         /\ tables'[last'.tid].composable = tables[last'.tid].composable
         /\ tables[last'.tid].chainable
            => /\ tables' = tables
               /\ \A s \in DOMAIN states :
                    BuildApi(StateRef(s), last'.tid, [Now EXCEPT !.tables = tables'])
                      = BuildApi(StateRef(s), last'.tid, Now) ]_vars

\* C29 witness: the table was tagged again after a capability object with
\* re-binding entries had been bound from it
C29_Witness ==
  /\ last.op = "rebind" /\ tables[last.tid].chainable
  /\ \E i \in DOMAIN apis :
       /\ BoundTable(i) = last.tid
       /\ \E k \in NamesOf(apis[i]) : apis[i].ops[k].chain

\* C25: the internal reference of every capability object, bound, returned
\* by a mutator or produced by the layered builder, is a State, never a
\* capability object.
C25_InternalIsState ==
  \A i \in DOMAIN apis : apis[i].internal.t = "state"

\* the functions of the composable tables: each calls its trailing argument
Forwarders == {"fwd0", "fwd1", "fwdLast0", "fwdLast1"}
\* the last call ran a composed function whose continuation ran a function
\* that threw
ThrewInContinuation ==
  /\ last.op = "invoke" /\ Len(last.calls) = 1 /\ Len(last.log) >= 2
  /\ last.log[1].body \in Forwarders
  /\ last.log[Len(last.log)].body = "throw"

Primitives == {"make", "_with", "rebind", "makeWith", "compose", "merge",
               "makeWithCompose", "enrich", "makeLayered"}

\* C27: every error a call of the library ends with, be it from the check of
\* the subject, from a call of a bound or a composed entry, or from a call of
\* an accumulator, is a LayeredError whose context is one of the primitives.
C27_LayeredErrors ==
  IsErr(last.r) => last.r.ctx \in Primitives

\* C27 witness: the function of the base table threw an Error inside a
\* continuation, and the caller received a LayeredError of makeWith that
\* wraps it
C27_Witness ==
  /\ ThrewInContinuation
  /\ IsErr(last.r) /\ last.r.ctx = "makeWith" /\ last.r.root = "UserError"
  /\ last.r.depth >= 1

\* C28: a call of an accumulator with a function that has not exactly one
\* parameter, or with a function of one parameter that returns no valid
\* table, raises an error of makeLayered, returns no accumulator, and leaves
\* the accumulators and the capability objects as they were.
C28_LayerProtocolError ==
  [][ (/\ last'.op = "layerFunction"
       /\ (last'.calls[1].params # 1 \/ last'.calls[1].returns # "table"))
      => /\ IsErr(last'.r) /\ last'.r.ctx = "makeLayered"
         /\ accs' = accs /\ apis' = apis /\ cache' = cache ]_vars

\* the method objects of tids that define the name k
Defining(k, tids) == SelectSeq(tids, LAMBDA t : tables[t].fns[k] # NoOp)
\* the previous definition of a name, composed over the ones before it
RECURSIVE PrevOf(_, _)
PrevOf(k, defs) ==
  IF Len(defs) = 1 THEN tables[defs[1]].fns[k]
  ELSE ComposedPair(tables[defs[Len(defs)]].fns[k],
                    PrevOf(k, SubSeq(defs, 1, Len(defs) - 1)))

\* C30: makeWithCompose binds, for a name several method objects define, an
\* entry that calls the last definition with the state, the caller's
\* arguments and the previous definition, itself composed over the earlier
\* ones; and for a name defined once the entry makeWith binds for the method
\* object that defines it.
C30_AutoCompose ==
  [][ /\ (last'.op = "makeWithCompose" /\ last'.r.t = "api")
         => \A k \in Names :
              LET defs == Defining(k, last'.calls)
                  op   == apis'[last'.r.id].ops[k]
              IN /\ defs = << >> => op = NoOp
                 /\ Len(defs) = 1
                    => LET mw == BuildApi(StateRef(last'.a), defs[1], Now).ops[k]
                       IN /\ op.fn = mw.fn /\ op.subject = mw.subject
                          /\ op.chain = mw.chain
                 /\ Len(defs) >= 2 => op.fn = PrevOf(k, defs)
      /\ (/\ last'.op = "invoke" /\ Len(last'.calls) = 1
          /\ apis[last'.a].ops[last'.calls[1].name].fn.f = "composedPair")
         => LET op == apis[last'.a].ops[last'.calls[1].name]
            IN last'.log[1] = [body |-> op.fn.fn.body, tid |-> op.fn.fn.tid,
                               args |-> <<op.subject>> \o last'.calls[1].args
                                          \o <<FnVal(op.fn.prev)>>] ]_vars

NamedDistinct(args) ==
  /\ args # << >>
  /\ \A i \in DOMAIN args : args[i].t = "fn" /\ args[i].name \notin {"", " "}
  /\ \A i, j \in DOMAIN args : i # j => args[i].name # args[j].name
\* a single object whose values are all functions
FunctionObject(args) ==
  /\ Len(args) = 1 /\ args[1].t = "table"
  /\ \A k \in Names : tables[args[1].id].fns[k] # NotFn

\* C31: make called with named functions of distinct names returns a table
\* whose keys are those names, each with the function of that name; called
\* with one object of functions it returns that object.
C31_MakeTable ==
  [][ last'.op = "make"
      => LET args == last'.calls
         IN /\ NamedDistinct(args)
               => /\ last'.r.t = "table"
                  /\ MethodNames(last'.r.id, [Now EXCEPT !.tables = tables'])
                       = {args[i].name : i \in DOMAIN args}
                  /\ \A i \in DOMAIN args :
                       tables'[last'.r.id].fns[args[i].name] = args[i].c
            /\ FunctionObject(args)
               => /\ last'.r = args[1] /\ tables' = tables ]_vars

\* C31 witness: make(get, add) returned a table with the keys get and add
C31_Witness ==
  /\ last.op = "make" /\ Len(last.calls) = 2 /\ last.r.t = "table"
  /\ last.r.id > Len(Catalogue)
  /\ MethodNames(last.r.id, Now) = {"get", "add"}
  /\ tables[last.r.id].fns["get"] # tables[last.r.id].fns["add"]

\* C32: make raises an error of make and makes no table when it is called
\* with no argument, with an element or a value that is no function, with a
\* function without a name, or with two functions of the same name.
C32_MakeErrors ==
  [][ (/\ last'.op = "make"
       /\ ~NamedDistinct(last'.calls) /\ ~FunctionObject(last'.calls))
      => /\ IsErr(last'.r) /\ last'.r.ctx = "make"
         /\ tables' = tables ]_vars

\* C32 witness: make was called with two different functions named get and
\* raised the error for a duplicate name
C32_Witness ==
  /\ last.op = "make" /\ Len(last.calls) = 2
  /\ last.calls[1].t = "fn" /\ last.calls[2].t = "fn"
  /\ last.calls[1].name = "get" /\ last.calls[2].name = "get"
  /\ last.calls[1] # last.calls[2]
  /\ IsErr(last.r) /\ last.r.root = "DuplicateName"

\* C35: makeWith(subject) called with named functions of distinct names
\* returns a capability object with an entry for every name that calls the
\* function of that name with the subject first.
C35_BindList ==
  [][ (/\ last'.op = "makeWithArgs" /\ NamedDistinct(last'.calls))
      => /\ last'.r.t = "api"
         /\ \A i \in DOMAIN last'.calls :
              LET op == apis'[last'.r.id].ops[last'.calls[i].name]
              IN op # NoOp /\ op.fn = last'.calls[i].c
                           /\ op.subject = StateRef(last'.a) ]_vars

\* C33: makeWith, makeWithCompose and makeLayered called with a state that is
\* null, undefined or no object raise their own error at that call, and the
\* call produces no capability object, no accumulator and no cache entry.
C33_SubjectRejected ==
  [][ (/\ last'.op \in {"makeWith", "makeWithCompose", "makeLayered"}
       /\ last'.a = 0)
      => /\ last'.r = Raise(last'.op, IF last'.calls[1].t \in {"undef", "null"}
                                      THEN "NullSubject" ELSE "SubjectNotObject")
         /\ apis' = apis /\ accs' = accs /\ cache' = cache ]_vars

\* C33 witness: capability objects and an accumulator exist, and makeLayered
\* was just called with a number and raised its own error
C33_Witness ==
  /\ last.op = "makeLayered" /\ last.a = 0 /\ last.calls = <<Num(2)>>
  /\ IsErr(last.r) /\ last.r.ctx = "makeLayered"
  /\ Len(apis) >= 2 /\ Len(accs) >= 1

C36_TablesImmutable ==
  [][ last'.op = "rebind"
      => /\ tables'[last'.tid] = tables[last'.tid]
         /\ \A s \in DOMAIN states :
              BuildApi(StateRef(s), last'.tid, [Now EXCEPT !.tables = tables'])
                = BuildApi(StateRef(s), last'.tid, Now) ]_vars

\* the own enumerable property keys of a capability object: the names of its
\* entries and, as finalApi[INTERNAL_STATE] = subject is a plain assignment,
\* the symbol INTERNAL_STATE
OwnEnumerableKeys(api) ==
  {k \in Names : api.ops[k] # NoOp}
    \cup (IF api.internal # Undef THEN {"INTERNAL_STATE"} ELSE {})

\* C37: every capability object makeWith built, for the caller or in a chain
\* of mutator calls, has as its enumerable entries exactly the operation
\* names of its table, with no bookkeeping entry among them.
C37_OnlyOperationNames ==
  \A e \in cache : OwnEnumerableKeys(apis[e.api]) = MethodNames(e.tid, Now)

\* the tables the call that last' records was given
GivenTables(o) == IF o.op = "merge" THEN {o.calls[j] : j \in DOMAIN o.calls} ELSE {o.tid}

\* C38: every call of makeWith, makeLayered, an accumulator or merge that is
\* given a table with a value that is no function raises a validation error,
\* whatever calls the table was given to before, and every entry of every
\* capability object calls a function.
C38_InvalidTableRejected ==
  [][ /\ (/\ last'.op \in {"makeWith", "makeLayered", "layer", "merge"}
          /\ \E t \in GivenTables(last') : ~AllFunctions(t, Now))
         => (IsErr(last'.r) /\ last'.r.root = "TypeError")
      /\ \A i \in DOMAIN apis', k \in Names :
           apis'[i].ops[k].f = "bound" => apis'[i].ops[k].fn # NotFn ]_vars

\* C39: a bind of a pair that the cache does not hold and whose table the
\* factory rejects raises an error, adds no capability object and no cache
\* entry, so the pair is still absent from the cache; and a bind of an absent
\* pair that returns a capability object returns a new one, built in full from
\* the table as it is at that call, and enters it for the pair.
C39_FailedBuildNotCached ==
  [][ (/\ last'.op = "makeWith" /\ last'.a # 0
       /\ CacheHits(StateRef(last'.a), last'.tid, Now) = {})
      => IF ~validateMethods(last'.tid, Now)
         THEN /\ IsErr(last'.r)
              /\ apis' = apis /\ cache' = cache
         ELSE /\ last'.r = ApiRef(Len(apis) + 1)
              /\ apis' = Append(apis, BuildApi(StateRef(last'.a), last'.tid, Now))
              /\ cache' = cache \cup {[subj |-> StateRef(last'.a), tid |-> last'.tid,
                                        api |-> Len(apis) + 1]} ]_vars

\* C39 witness: a bind of the table with the value 42 has just failed, while
\* the cache holds an object for another table and none for this one
C39_Witness ==
  /\ last.op = "makeWith" /\ last.tid = TInvalid /\ IsErr(last.r)
  /\ ~AllFunctions(TInvalid, Now)
  /\ cache # {}
  /\ \A e \in cache : e.tid # TInvalid

====
